---- MODULE Spec2Model ----
(***************************************************************************)
(* Model of inviwo's Serializer (src/core/io/serialization/serializer.cpp) *)
(* and of ListProperty (include/inviwo/core/properties/listproperty.h).    *)
(*                                                                         *)
(* The document is a sequence of nodes; a node's id is its index.  Node 1  *)
(* is the TxDocument doc_.  A node keeps its parent, the ordered list of   *)
(* its children, its ordered attribute list and its text payload.          *)
(* Attribute values and text are sequences of characters.                  *)
(***************************************************************************)
EXTENDS Integers, Sequences, FiniteSets, TLC

VARIABLES
    nodes,          \* doc_: the document tree, node id = index
    rootElement_,   \* SerializeBase::rootElement_: the cursor (0 before initialize)
    stack,          \* active serialize(key, object) calls, outermost first
    exc,            \* exception in flight inside a pass ("none" when there is none)
    raised,         \* what the last public operation threw at its caller
    alive,          \* the constructor returned normally
    origin,         \* per node: which call created it (history)
    calls,          \* number of serialize(key, object) calls the backend linked (history)
    visits,         \* per object: invocations of its serialize method (history)
    refDataContainer_,  \* the reference table of the pass
    file,           \* content of the file named by getFileName()
    stream,         \* content of the std::ostream handed to writeFile(stream)
    last,           \* the most recent Serializer operation (history)
    data,           \* the byte held by the 8-bit variable handed to serialize
    charIsSigned,   \* whether plain char is a signed type in this build
    other,          \* a second Serializer instance, with the file it names
    numElements_,       \* ListProperty::numElements_
    maxNumElements_,    \* ListProperty::maxNumElements_
    prefab_,            \* ListProperty::prefab_ ("null" or "set")
    elements_,          \* ListProperty::elements_: its properties, in order
    elementSelection_,  \* ListProperty::elementSelection_: options and selected index
    listState           \* the ListProperty and its last call (history)

listVars == <<numElements_, maxNumElements_, prefab_, elements_, elementSelection_, listState>>

serializerVars == <<nodes, rootElement_, stack, exc, raised, alive, origin, calls, visits,
                    refDataContainer_, file, stream, last, data, charIsSigned>>

vars == <<serializerVars, other, listVars>>

----------------------------------------------------------------------------
\* Bounds of the model.
MaxNodes == 7
MaxPrimNodes == 5
MaxNarrowNodes == 5

Objects == {1, 2}
Keys == {"a", "version"}

\* The member objects the callers serialize, each under its name.
Members == {[key |-> "a", obj |-> 1], [key |-> "version", obj |-> 2]}

\* SerializeConstants, as used by Serializer::initialize.
XmlVersion == <<"1", ".", "0">>
InviwoTreedata == "InviwoTreeData"
VersionAttribute == "version"
InviwoVersion == <<"1", ".", "0">>
EditComment == "Don't edit the following code"

DocId == 1

----------------------------------------------------------------------------
\* The document backend (ticpp), as the Serializer uses it.

\* new TxElement / TxDeclaration / TxComment: an unlinked node.
NewNode(kind, value) ==
    [kind |-> kind, value |-> value, parent |-> 0,
     children |-> <<>>, attrs |-> <<>>, text |-> <<>>]

\* Node::LinkEndChild seen as a defect: the child is linked first, not last.
LinkFirstChild(ns, p, c) ==
    [ns EXCEPT ![p].children = <<c>> \o @, ![c].parent = p]

\* Node::LinkEndChild: c becomes the last child of p.
LinkEndChild(ns, p, c) ==
    [ns EXCEPT ![p].children = Append(@, c), ![c].parent = p]

HasAttribute(n, name) == \E i \in 1..Len(n.attrs) : n.attrs[i].name = name

GetAttribute(n, name) ==
    LET i == CHOOSE j \in 1..Len(n.attrs) : n.attrs[j].name = name
    IN  n.attrs[i].value

\* Element::SetAttribute: replaces the value of an existing attribute, else
\* appends a new one.
SetAttribute(ns, e, name, value) ==
    IF HasAttribute(ns[e], name)
    THEN [ns EXCEPT ![e].attrs =
            [i \in 1..Len(@) |->
                IF @[i].name = name THEN [name |-> name, value |-> value] ELSE @[i]]]
    ELSE [ns EXCEPT ![e].attrs = Append(@, [name |-> name, value |-> value])]

----------------------------------------------------------------------------
\* Serializer::initialize.  upTo is the number of backend calls that succeed
\* before one throws TxException (3 = none throws).

InitOrigin == [obj |-> 0, depth |-> 0, cursor |-> 0, how |-> "initialize"]

RootId == 3
CommentId == 4

InitializeNodes(upTo) ==
    LET d0 == <<NewNode("document", "")>>
        \* auto decl = make_unique<TxDeclaration>(XmlVersion, "", ""); doc_.LinkEndChild
        d1 == SetAttribute(Append(d0, NewNode("declaration", "xml")), 2, "version", XmlVersion)
        d1l == LinkEndChild(d1, DocId, 2)
        \* rootElement_ = new TxElement(InviwoTreedata); SetAttribute(version)
        d2 == SetAttribute(Append(d1l, NewNode("element", InviwoTreedata)),
                           RootId, VersionAttribute, InviwoVersion)
        d2l == LinkEndChild(d2, DocId, RootId)
        \* comment->SetValue(EditComment); rootElement_->LinkEndChild(comment)
        d3 == Append(d2l, NewNode("comment", EditComment))
        d3l == LinkEndChild(d3, RootId, CommentId)
    IN  CASE upTo = 0 -> d1
          [] upTo = 1 -> d2
          [] upTo = 2 -> d3
          [] OTHER    -> d3l

NoOp ==
    [op |-> "construct", key |-> "", attr |-> FALSE, stamped |-> FALSE, flush |-> "none"]

Untouched == [state |-> "untouched", doc |-> <<>>]

EmptyTable ==
    [table |-> [o \in Objects |-> [id |-> 0, node |-> 0]], markers |-> <<>>, count |-> 0]

InitSerializer ==
    \E upTo \in 0..3 :
        /\ nodes = InitializeNodes(upTo)
        /\ rootElement_ = IF upTo >= 1 THEN RootId ELSE 0
        /\ alive = (upTo = 3)
        /\ raised = IF upTo = 3 THEN "none" ELSE "SerializationException"
        /\ stack = <<>>
        /\ exc = "none"
        /\ origin = [i \in 1..Len(nodes) |-> InitOrigin]
        /\ calls = 0
        /\ visits = [o \in Objects |-> 0]
        /\ refDataContainer_ = EmptyTable
        /\ file = Untouched
        /\ stream = Untouched
        /\ last = NoOp

\* No second Serializer has been constructed.
NoOther ==
    [state |-> "none", fileName |-> "", nodes |-> <<>>, rootElement_ |-> 0,
     stack |-> <<>>, file |-> Untouched, wrote |-> FALSE,
     from |-> [depth |-> 0, size |-> 0]]

\* ListProperty::ListProperty(identifier, displayName, elementName, prefab,
\* maxNumberOfElements, ...): numElements_(0), no option, no element.
NoSelection == [options |-> <<>>, selectedIndex_ |-> 0]

\* live: no call has run into undefined behaviour; clones: the elements made so far.
ListNoOp == [live |-> TRUE, op |-> "construct", clones |-> 0]

ListPropertyCtor(prefab, maxNumberOfElements) ==
    /\ numElements_ = 0
    /\ maxNumElements_ = maxNumberOfElements
    /\ prefab_ = prefab
    /\ elements_ = <<>>
    /\ elementSelection_ = NoSelection
    /\ listState = ListNoOp

Init ==
    /\ InitSerializer
    /\ data = 5
    /\ charIsSigned = TRUE
    /\ other = NoOther
    /\ ListPropertyCtor("set", 0)

----------------------------------------------------------------------------
\* The traversal cursor: NodeSwitch, the scoped guard of SerializeBase.

\* NodeSwitch::NodeSwitch(serializer, node): saves the cursor; the cursor becomes node.
NodeSwitchCtor(cursor, node, o, ref) ==
    [storedNode_ |-> cursor, node |-> node, obj |-> o, viaRef |-> ref]

\* NodeSwitch::~NodeSwitch: the cursor becomes the saved one again.
NodeSwitchDtor(frame) == frame.storedNode_

----------------------------------------------------------------------------
\* Serializer::serialize(const std::string& key, const Serializable& sObj)

\* The element linked somewhere else than under the cursor (a defect).
SerializeLinkAtRoot(ns, cursor, key) ==
    LinkEndChild(Append(ns, NewNode("element", key)), RootId, Len(ns) + 1)

\* The element linked before its siblings (a defect).
SerializeLinkFront(ns, cursor, key) ==
    LinkFirstChild(Append(ns, NewNode("element", key)), cursor, Len(ns) + 1)

\* The element linked to the document itself, beside the root (a defect).
SerializeLinkAtDocument(ns, cursor, key) ==
    LinkEndChild(Append(ns, NewNode("element", key)), DocId, Len(ns) + 1)

\* auto newNode = make_unique<TxElement>(key); rootElement_->LinkEndChild(newNode.get())
SerializeLink(ns, cursor, key) ==
    LinkEndChild(Append(ns, NewNode("element", key)), cursor, Len(ns) + 1)

\* The cursor restored by hand after the call instead of by a scoped guard (a
\* defect): an exception leaves the cursor where it was.
SerializeExitByHand(frame, cursor, exceptional) ==
    IF exceptional THEN cursor ELSE NodeSwitchDtor(frame)

\* Leaving the scope of serialize, by return or by exception, destroys
\* nodeSwitch: the cursor after the call.
SerializeExit(frame, cursor, exceptional) == NodeSwitchDtor(frame)

\* The element taken out of the document again when its call ends (a defect).
SerializeUnlinksNode(ns, frame) ==
    LET e == frame.node
        p == ns[e].parent
    IN  [ns EXCEPT ![p].children = SelectSeq(@, LAMBDA c : c # e), ![e].parent = 0]

\* Leaving the scope of serialize destroys newNode (line 71): the unique_ptr
\* releases the handle only, the element it was linked as stays in the document.
SerializeNewNodeDtor(ns, frame) == ns

\* serialize(key, sObj) has no try block: what the caller of serialize sees
\* when an exception e passes through it.
SerializePropagates(e) == e

TopLevel == stack = <<>>

\* A writeFile call has been made and nothing was serialized since.
Written == last.op \in {"writeFile", "writeStream"}

Running == alive /\ exc = "none"

Op(name, key, attr) ==
    [op |-> name, key |-> key, attr |-> attr, stamped |-> FALSE, flush |-> "none"]

\* The call: lines 67-70 up to the point where sObj.serialize(*this) runs.
Serialize(key, o) ==
    /\ Running
    /\ Len(nodes) < MaxNodes
    /\ nodes' = SerializeLink(nodes, rootElement_, key)
    /\ stack' = Append(stack, NodeSwitchCtor(rootElement_, Len(nodes) + 1, o, FALSE))
    /\ rootElement_' = Len(nodes) + 1
    /\ origin' = Append(origin, [obj |-> o, depth |-> Len(stack) + 1,
                                 cursor |-> rootElement_, how |-> "serialize"])
    /\ calls' = calls + 1
    /\ visits' = [visits EXCEPT ![o] = @ + 1]
    /\ raised' = IF TopLevel THEN "none" ELSE raised
    /\ last' = Op("serialize", key, FALSE)
    /\ UNCHANGED <<exc, alive, refDataContainer_, file, stream, data, charIsSigned, other, listVars>>

\* The call when the backend throws TxException from LinkEndChild (line 68):
\* newNode is destroyed unlinked and the exception leaves serialize as it is.
SerializeBackendFails(key, o) ==
    /\ Running
    /\ calls' = calls
    /\ IF TopLevel
       THEN raised' = SerializePropagates("TxException") /\ exc' = exc
       ELSE exc' = SerializePropagates("TxException") /\ raised' = raised
    /\ last' = Op("serialize", key, FALSE)
    /\ UNCHANGED <<nodes, rootElement_, stack, alive, origin, visits,
                   refDataContainer_, file, stream, data, charIsSigned, other, listVars>>

\* sObj.serialize(*this) returns (line 70), then the scope of serialize ends.
ObjectReturns ==
    /\ Running
    /\ ~TopLevel
    /\ rootElement_' = SerializeExit(stack[Len(stack)], rootElement_, FALSE)
    /\ nodes' = SerializeNewNodeDtor(nodes, stack[Len(stack)])
    /\ stack' = SubSeq(stack, 1, Len(stack) - 1)
    /\ UNCHANGED <<exc, raised, alive, origin, calls, visits,
                   refDataContainer_, file, stream, last, data, charIsSigned, other, listVars>>

\* sObj.serialize(*this) raises an exception of its own.
ObjectThrows ==
    /\ Running
    /\ ~TopLevel
    /\ exc' = "SerializationException"
    /\ UNCHANGED <<nodes, rootElement_, stack, raised, alive, origin, calls, visits, refDataContainer_, file, stream, last, data, charIsSigned, other, listVars>>

\* An exception in flight leaves the innermost active serialize call.
Unwind ==
    /\ alive
    /\ exc # "none"
    /\ ~TopLevel
    /\ rootElement_' = SerializeExit(stack[Len(stack)], rootElement_, TRUE)
    /\ stack' = SubSeq(stack, 1, Len(stack) - 1)
    /\ IF Len(stack) = 1
       THEN raised' = SerializePropagates(exc) /\ exc' = "none"
       ELSE raised' = raised /\ exc' = SerializePropagates(exc)
    /\ nodes' = SerializeNewNodeDtor(nodes, stack[Len(stack)])
    /\ UNCHANGED <<alive, origin, calls, visits,
                   refDataContainer_, file, stream, last, data, charIsSigned, other, listVars>>

----------------------------------------------------------------------------
\* Text encoding of integers, as the backend writes and reads them.

Digits == <<"0", "1", "2", "3", "4", "5", "6", "7", "8", "9">>

RECURSIVE NatToText(_)
NatToText(n) ==
    IF n < 10 THEN <<Digits[n + 1]>>
    ELSE Append(NatToText(n \div 10), Digits[(n % 10) + 1])

IntToText(v) == IF v < 0 THEN <<"-">> \o NatToText(-v) ELSE NatToText(v)

DigitValue(c) == (CHOOSE i \in 1..10 : Digits[i] = c) - 1

RECURSIVE TextToNat(_)
TextToNat(t) ==
    IF Len(t) = 0 THEN 0
    ELSE 10 * TextToNat(SubSeq(t, 1, Len(t) - 1)) + DigitValue(t[Len(t)])

TextToInt(t) ==
    IF Len(t) > 0 /\ t[1] = "-" THEN -TextToNat(Tail(t)) ELSE TextToNat(t)

----------------------------------------------------------------------------
\* The reference table and the reference-aware serialize overload.

RefText(id) == <<"r", "e", "f">> \o NatToText(id)

\* The overload for an identity met before: an element named key that only
\* stands for the object, to be stamped with a reference attribute; the
\* object's serialize method is not run.
\* For an identity not met before: it gets the next id, the location of its
\* element is recorded, and serialize(key, object) does the full walk.
SerializeRef(key, o) ==
    /\ Running
    /\ Len(nodes) < MaxNodes
    /\ LET rt == refDataContainer_
           n == Len(nodes) + 1
       IN  IF rt.table[o].id # 0
           THEN /\ nodes' = LinkEndChild(Append(nodes, NewNode("element", key)),
                                         rootElement_, n)
                /\ refDataContainer_' =
                      [rt EXCEPT !.markers = Append(@, [node |-> n, id |-> rt.table[o].id])]
                /\ origin' = Append(origin, [obj |-> o, depth |-> Len(stack) + 1,
                                             cursor |-> rootElement_, how |-> "marker"])
                /\ UNCHANGED <<rootElement_, stack, calls, visits>>
           ELSE /\ refDataContainer_' =
                      [rt EXCEPT !.table[o] = [id |-> rt.count + 1, node |-> n],
                                 !.count = @ + 1]
                /\ nodes' = SerializeLink(nodes, rootElement_, key)
                /\ stack' = Append(stack, NodeSwitchCtor(rootElement_, n, o, TRUE))
                /\ rootElement_' = n
                /\ origin' = Append(origin, [obj |-> o, depth |-> Len(stack) + 1,
                                             cursor |-> rootElement_, how |-> "serialize"])
                /\ calls' = calls + 1
                /\ visits' = [visits EXCEPT ![o] = @ + 1]
    /\ raised' = IF TopLevel THEN "none" ELSE raised
    /\ last' = Op("serializeRef", key, FALSE)
    /\ UNCHANGED <<exc, alive, file, stream, data, charIsSigned, other, listVars>>

RECURSIVE MarkerOps(_)
MarkerOps(ms) ==
    IF ms = <<>> THEN <<>>
    ELSE <<[node |-> ms[1].node, name |-> "reference", value |-> RefText(ms[1].id)]>>
         \o MarkerOps(Tail(ms))

IsUsed(rt, id) == \E i \in 1..Len(rt.markers) : rt.markers[i].id = id

RECURSIVE IdOps(_, _)
IdOps(rt, o) ==
    IF o \notin Objects THEN <<>>
    ELSE (IF rt.table[o].id # 0 /\ IsUsed(rt, rt.table[o].id)
          THEN <<[node |-> rt.table[o].node, name |-> "id",
                  value |-> RefText(rt.table[o].id)]>>
          ELSE <<>>) \o IdOps(rt, o + 1)

\* The SetAttribute calls of setReferenceAttributes, in order.
StampOps(rt) == MarkerOps(rt.markers) \o IdOps(rt, 1)

RECURSIVE Stamp(_, _, _)
Stamp(ns, ops, k) ==
    IF k = 0 THEN ns
    ELSE SetAttribute(Stamp(ns, ops, k - 1), ops[k].node, ops[k].name, ops[k].value)

\* refDataContainer_.setReferenceAttributes()
SetReferenceAttributes(ns, rt) == Stamp(ns, StampOps(rt), Len(StampOps(rt)))

----------------------------------------------------------------------------
\* Serializer::writeFile() and Serializer::writeFile(std::ostream&)

\* The document flushed before the reference attributes are stamped (a defect).
WriteFileDocumentEarly(ns, rt) == ns

\* Lines 87-88 and 96-97: the sink receives doc_ as setReferenceAttributes left it.
WriteFileDocument(ns, rt) == SetReferenceAttributes(ns, rt)

\* The handler rethrowing what it caught (a defect).
WriteFileRethrow(e) == e

\* catch (TxException& e) { throw SerializationException(e.what(), IvwContext); }
WriteFileCatch(e) == IF e = "TxException" THEN "SerializationException" ELSE e

Document(ns) == [state |-> "document", doc |-> ns]
Partial == [state |-> "partial", doc |-> <<>>]

WriteOp(name, stamped, flush) ==
    [op |-> name, key |-> "", attr |-> FALSE, stamped |-> stamped, flush |-> flush]

\* writeFile(): k is the number of attributes setReferenceAttributes sets
\* before the backend throws (all of them: it does not throw); out is what
\* doc_.SaveFile does, which throws TxException when it cannot write.
WriteFile ==
    /\ Running
    /\ TopLevel
    /\ LET ops == StampOps(refDataContainer_) IN
       \E k \in 0..Len(ops), out \in {"ok", "TxException"} :
          IF k < Len(ops)
          THEN /\ nodes' = Stamp(nodes, ops, k)
               /\ file' = file
               /\ raised' = WriteFileCatch("TxException")
               /\ last' = WriteOp("writeFile", FALSE, "none")
          ELSE /\ nodes' = SetReferenceAttributes(nodes, refDataContainer_)
               /\ IF out = "ok"
                  THEN /\ file' = Document(WriteFileDocument(nodes, refDataContainer_))
                       /\ raised' = "none"
                       /\ last' = WriteOp("writeFile", TRUE, "ok")
                  ELSE /\ file' \in {file, Partial}
                       /\ raised' = WriteFileCatch(out)
                       /\ last' = WriteOp("writeFile", TRUE, "failed")
    /\ UNCHANGED <<rootElement_, stack, exc, alive, origin, calls, visits,
                   refDataContainer_, stream, data, charIsSigned, other, listVars>>

\* writeFile(stream): out is what stream << doc_ does.  A std::ostream that
\* cannot take the bytes sets its state bits ("failbit") and nothing is thrown;
\* the backend may throw TxException.
WriteStream ==
    /\ Running
    /\ TopLevel
    /\ LET ops == StampOps(refDataContainer_) IN
       \E k \in 0..Len(ops), out \in {"ok", "failbit", "TxException"} :
          IF k < Len(ops)
          THEN /\ nodes' = Stamp(nodes, ops, k)
               /\ stream' = stream
               /\ raised' = WriteFileCatch("TxException")
               /\ last' = WriteOp("writeStream", FALSE, "none")
          ELSE /\ nodes' = SetReferenceAttributes(nodes, refDataContainer_)
               /\ IF out = "ok"
                  THEN /\ stream' = Document(WriteFileDocument(nodes, refDataContainer_))
                       /\ raised' = "none"
                       /\ last' = WriteOp("writeStream", TRUE, "ok")
                  ELSE /\ stream' \in {stream, Partial}
                       /\ raised' = WriteFileCatch(IF out = "failbit" THEN "none" ELSE out)
                       /\ last' = WriteOp("writeStream", TRUE,
                                          IF out = "failbit" THEN "failbit" ELSE "failed")
    /\ UNCHANGED <<rootElement_, stack, exc, alive, origin, calls, visits,
                   refDataContainer_, file, data, charIsSigned, other, listVars>>

----------------------------------------------------------------------------
\* The overloads for 8-bit integers (lines 74-83).  data is the byte of the
\* variable; int and unsigned int are taken at the narrowest width the
\* language allows, 16 bits, and an int is held as its bit pattern.

TwoPow8 == 256
TwoPow16 == 65536

\* The value of a byte read as signed char, and of a pattern read as int.
SignedCharValue(b) == IF b >= TwoPow8 \div 2 THEN b - TwoPow8 ELSE b
IntValue(w) == IF w >= TwoPow16 \div 2 THEN w - TwoPow16 ELSE w

\* The byte widened without its sign (a defect).
ZeroExtend(b) == b

\* static_cast<int>(data) for a signed 8-bit data: the sign is extended.
StaticCastToInt(b) == IF b >= TwoPow8 \div 2 THEN b + (TwoPow16 - TwoPow8) ELSE b

\* static_cast<unsigned int>(data) for an unsigned 8-bit data.
StaticCastToUnsignedInt(b) == b

\* serialize(key, data, asAttribute) for a scalar whose text is given: an
\* attribute of the current element, or a child element with the text.
SerializeText(ns, cursor, key, text, asAttribute) ==
    IF asAttribute
    THEN SetAttribute(ns, cursor, key, text)
    ELSE LinkEndChild(Append(ns, [NewNode("element", key) EXCEPT !.text = text]),
                      cursor, Len(ns) + 1)

\* serialize(key, int, asAttribute) and serialize(key, unsigned int, asAttribute)
SerializeInt(ns, cursor, key, w, asAttribute) ==
    SerializeText(ns, cursor, key, IntToText(IntValue(w)), asAttribute)

SerializeUnsignedInt(ns, cursor, key, w, asAttribute) ==
    SerializeText(ns, cursor, key, NatToText(w), asAttribute)

\* What a primitive overload leaves alone, and its history.
Primitive(name, key, asAttribute) ==
    /\ Running
    /\ asAttribute \/ Len(nodes) < MaxNodes
    /\ origin' = IF asAttribute THEN origin
                 ELSE Append(origin, [obj |-> 0, depth |-> Len(stack) + 1,
                                      cursor |-> rootElement_, how |-> "primitive"])
    /\ raised' = IF TopLevel THEN "none" ELSE raised
    /\ last' = Op(name, key, asAttribute)
    /\ UNCHANGED <<rootElement_, stack, exc, alive, calls, visits,
                   refDataContainer_, file, stream, data, charIsSigned, other, listVars>>

\* serialize(key, const signed char& data, asAttribute), lines 74-76
SerializeSignedChar(key, asAttribute) ==
    /\ Primitive("signed char", key, asAttribute)
    /\ nodes' = SerializeInt(nodes, rootElement_, key, StaticCastToInt(data), asAttribute)

\* serialize(key, const char& data, asAttribute), lines 77-79
SerializeChar(key, asAttribute) ==
    /\ Primitive("char", key, asAttribute)
    /\ nodes' = SerializeInt(nodes, rootElement_, key,
                             IF charIsSigned THEN StaticCastToInt(data)
                             ELSE StaticCastToUnsignedInt(data), asAttribute)

\* serialize(key, const unsigned char& data, asAttribute), lines 80-83
SerializeUnsignedChar(key, asAttribute) ==
    /\ Primitive("unsigned char", key, asAttribute)
    /\ nodes' = SerializeUnsignedInt(nodes, rootElement_, key,
                                     StaticCastToUnsignedInt(data), asAttribute)

----------------------------------------------------------------------------
\* A second Serializer instance, constructed while the first one, s, is in
\* any state.  s names the file SFileName, whose content is the variable
\* file; the content of the other file is other.file.

MaxOtherNodes == 5
MaxTwoNodes == 6

SFileName == "f"
FileNames == {"f", "g"}

\* The new instance taking over the document and cursor of s (a defect).
CopyCtorTakesState(sNodes, sCursor, upTo) ==
    [nodes |-> sNodes, rootElement_ |-> sCursor]

\* Serializer::Serializer: SerializeBase(...) gives the instance a document of
\* its own, initialize() fills it (upTo as in InitializeNodes).
SerializerCtor(sNodes, sCursor, upTo) ==
    [nodes |-> InitializeNodes(upTo), rootElement_ |-> IF upTo >= 1 THEN RootId ELSE 0]

\* Every instance saving to one and the same file (a defect).
WriteFileTargetShared(fileName) == SFileName

\* doc_.SaveFile(getFileName()): the file written is the one the instance names.
WriteFileTarget(fileName) == fileName

OtherBuilt(made, fileName, upTo) ==
    [state |-> IF upTo = 3 THEN "built" ELSE "failed",
     fileName |-> fileName,
     nodes |-> IF upTo = 3 THEN made.nodes ELSE <<>>,
     rootElement_ |-> IF upTo = 3 THEN made.rootElement_ ELSE 0,
     stack |-> <<>>,
     file |-> other.file,
     wrote |-> FALSE,
     from |-> [depth |-> Len(stack), size |-> Len(nodes)]]

\* Serializer(Serializer& s, bool allowReference), lines 37-40: the file name
\* is s.getFileName().
OtherCopyCtor(upTo) ==
    /\ alive
    /\ other.state = "none"
    /\ other' = OtherBuilt(SerializerCtor(nodes, rootElement_, upTo), SFileName, upTo)
    /\ UNCHANGED <<serializerVars, listVars>>

\* Serializer(const std::string& fileName, bool allowReference), lines 42-45
OtherNamedCtor(fileName, upTo) ==
    /\ other.state = "none"
    /\ other' = OtherBuilt(SerializerCtor(<<>>, 0, upTo), fileName, upTo)
    /\ UNCHANGED <<serializerVars, listVars>>

\* serialize(key, sObj) on the second instance, up to the call of sObj.serialize.
OtherSerialize(key) ==
    /\ other.state = "built"
    /\ Len(other.nodes) < MaxOtherNodes
    /\ other' = [other EXCEPT
          !.nodes = SerializeLink(other.nodes, other.rootElement_, key),
          !.stack = Append(@, NodeSwitchCtor(other.rootElement_, Len(other.nodes) + 1,
                                             0, FALSE)),
          !.rootElement_ = Len(other.nodes) + 1]
    /\ UNCHANGED <<serializerVars, listVars>>

\* sObj.serialize returns on the second instance.
OtherReturns ==
    /\ other.state = "built"
    /\ other.stack # <<>>
    /\ LET frame == other.stack[Len(other.stack)] IN
       other' = [other EXCEPT
          !.rootElement_ = SerializeExit(frame, other.rootElement_, FALSE),
          !.nodes = SerializeNewNodeDtor(other.nodes, frame),
          !.stack = SubSeq(@, 1, Len(@) - 1)]
    /\ UNCHANGED <<serializerVars, listVars>>

\* writeFile() on the second instance; it holds no references.
OtherWriteFile ==
    /\ other.state = "built"
    /\ other.stack = <<>>
    /\ ~other.wrote
    /\ \E out \in {"ok", "TxException"} :
          LET doc == Document(WriteFileDocument(other.nodes, EmptyTable))
              target == WriteFileTarget(other.fileName)
              old == IF target = SFileName THEN file ELSE other.file
          IN  \E new \in (IF out = "ok" THEN {doc} ELSE {old, Partial}) :
                 /\ file' = IF target = SFileName THEN new ELSE file
                 /\ other' = [other EXCEPT
                       !.file = IF target = SFileName THEN @ ELSE new,
                       !.wrote = TRUE]
    /\ UNCHANGED <<nodes, rootElement_, stack, exc, raised, alive, origin, calls, visits,
                   refDataContainer_, stream, last, data, charIsSigned, listVars>>

----------------------------------------------------------------------------
\* ListProperty<T> (listproperty.h).  elements_ is the list of the properties
\* of the CompositeProperty elements_, each with its identifier, display name
\* and the identity of the object (uid); elementSelection_ is the list of
\* options with the selected index.  Strings are sequences of pieces.

MaxClones == 4
MaxMaxNumElements == 3

\* The default of the constructor's elementName (line 58).
ElementName == "Element"

\* std::to_string of a size_t
to_string(n) == NatToText(n)

ElementIdentifier(num) == <<"element_">> \o num
OptionIdentifier(num) == <<"elementOption_">> \o num
ElementDisplayName(num) == <<ElementName, " ">> \o num

\* OptionPropertyString::addOption(identifier, displayName): the first option
\* added becomes the selected one.
AddOption(sel, identifier, displayName) ==
    [options |-> Append(sel.options, [identifier |-> identifier, displayName |-> displayName]),
     selectedIndex_ |-> IF sel.options = <<>> THEN 0 ELSE sel.selectedIndex_]

\* Sequence q without its element at 0-based index.
EraseAt(q, index) ==
    [i \in 1..(Len(q) - 1) |-> IF i <= index THEN q[i] ELSE q[i + 1]]

\* OptionPropertyString::removeOption(index): the selection stays on the
\* option it was on if that is still there, else goes to index 0.
RemoveOption(sel, index) ==
    LET id == sel.options[sel.selectedIndex_ + 1].identifier
        rest == EraseAt(sel.options, index)
    IN  [options |-> rest,
         selectedIndex_ |->
            IF \E i \in 1..Len(rest) : rest[i].identifier = id
            THEN (CHOOSE i \in 1..Len(rest) : rest[i].identifier = id) - 1
            ELSE 0]

\* OptionPropertyString::clearOptions()
ClearOptions(sel) == [options |-> <<>>, selectedIndex_ |-> 0]

\* OptionPropertyString::getSelectedIndex()
GetSelectedIndex(sel) == sel.selectedIndex_

\* CompositeProperty::addProperty(property, true)
AddProperty(props, property) == Append(props, property)

\* CompositeProperty::removeProperty(identifier): the first property with it goes.
RemoveProperty(props, identifier) ==
    IF \E i \in 1..Len(props) : props[i].identifier = identifier
    THEN LET k == CHOOSE i \in 1..Len(props) :
                    /\ props[i].identifier = identifier
                    /\ \A j \in 1..(i - 1) : props[j].identifier # identifier
         IN  EraseAt(props, k - 1)
    ELSE props

\* The test of addElement accepting one element too many (a defect).
AddElementGuardOffByOne(n, max) == n <= max \/ max = 0

\* Line 142: if (numElements_ < maxNumElements_ || maxNumElements_ == 0)
AddElementGuard(n, max) == n < max \/ max = 0

\* ListProperty<T>::addElement, lines 140-154.  prefab_->clone() on a null
\* prefab_ is undefined behaviour: the call does not return, the members are
\* as the statements before it left them.
AddElement ==
    /\ listState.live
    /\ listState.clones < MaxClones
    /\ IF AddElementGuard(numElements_, maxNumElements_)
       THEN LET num == to_string(numElements_ + 1) IN
            /\ numElements_' = numElements_ + 1
            /\ elementSelection_' =
                  AddOption(elementSelection_, OptionIdentifier(num), ElementDisplayName(num))
            /\ IF prefab_ = "null"
               THEN /\ elements_' = elements_
                    /\ listState' = [listState EXCEPT !.live = FALSE, !.op = "addElement"]
               ELSE /\ elements_' = AddProperty(elements_,
                          [identifier |-> ElementIdentifier(num),
                           displayName |-> ElementDisplayName(num),
                           uid |-> listState.clones + 1])
                    /\ listState' = [listState EXCEPT !.op = "addElement", !.clones = @ + 1]
       ELSE /\ listState' = [listState EXCEPT !.op = "addElement"]
            /\ UNCHANGED <<numElements_, elements_, elementSelection_>>
    /\ UNCHANGED <<maxNumElements_, prefab_, serializerVars, other>>

\* The elements left with the names they had (a defect).
DeleteElementKeepsNames(props) == props

\* Lines 169-175: every element left gets display name and identifier by its place.
DeleteElementRenumber(props) ==
    [i \in 1..Len(props) |->
        [props[i] EXCEPT !.displayName = ElementDisplayName(to_string(i)),
                         !.identifier = ElementIdentifier(to_string(i))]]

\* Lines 177-182: the options are made anew, one for each element left.
RECURSIVE DeleteElementOptions(_, _, _)
DeleteElementOptions(sel, i, size) ==
    IF i >= size + 1 THEN sel
    ELSE DeleteElementOptions(
            AddOption(sel, OptionIdentifier(to_string(i)), ElementDisplayName(to_string(i))),
            i + 1, size)

\* The counter left as it was (a defect).
DeleteElementKeepsCount(n) == n

\* Line 165: numElements_--
DeleteElementCount(n) == n - 1

\* The first element taken whatever is selected (a defect).
DeleteElementFirst(sel) == 0

\* Line 160: int selectedElement = elementSelection_.getSelectedIndex()
DeleteElementSelected(sel) == GetSelectedIndex(sel)

\* ListProperty<T>::deleteElement, lines 156-183.  beforeDeletion.at() throws
\* std::out_of_range for an index past the end, before anything is changed.
DeleteElement ==
    /\ listState.live
    /\ IF numElements_ <= 0
       THEN /\ listState' = [listState EXCEPT !.op = "deleteElement"]
            /\ UNCHANGED <<numElements_, elements_, elementSelection_>>
       ELSE LET beforeDeletion == elements_
                selectedElement == DeleteElementSelected(elementSelection_)
            IN  IF selectedElement >= Len(beforeDeletion)
                THEN /\ listState' = [listState EXCEPT !.op = "deleteElement out_of_range"]
                     /\ UNCHANGED <<numElements_, elements_, elementSelection_>>
                ELSE LET identifier == beforeDeletion[selectedElement + 1].identifier
                         afterDeletion == RemoveProperty(elements_, identifier)
                         removed == RemoveOption(elementSelection_, selectedElement)
                     IN  /\ listState' = [listState EXCEPT !.op = "deleteElement"]
                         /\ numElements_' = DeleteElementCount(numElements_)
                         /\ elements_' = DeleteElementRenumber(afterDeletion)
                         /\ elementSelection_' =
                               DeleteElementOptions(ClearOptions(removed), 1,
                                                    Len(afterDeletion))
    /\ UNCHANGED <<maxNumElements_, prefab_, serializerVars, other>>

\* The user picks an option of elementSelection_ (setSelectedIndex).
SelectElement(index) ==
    /\ listState.live
    /\ index < Len(elementSelection_.options)
    /\ elementSelection_' = [elementSelection_ EXCEPT !.selectedIndex_ = index]
    /\ listState' = [listState EXCEPT !.op = "select"]
    /\ UNCHANGED <<numElements_, maxNumElements_, prefab_, elements_, serializerVars, other>>

InitList ==
    /\ InitSerializer
    /\ alive
    /\ data = 5
    /\ charIsSigned = TRUE
    /\ other = NoOther
    /\ \E prefab \in {"null", "set"}, maxNumberOfElements \in 0..MaxMaxNumElements :
          ListPropertyCtor(prefab, maxNumberOfElements)

NextList ==
    \/ AddElement
    \/ DeleteElement
    \/ \E index \in 0..(MaxClones - 1) : SelectElement(index)

SpecList == InitList /\ [][NextList]_vars

----------------------------------------------------------------------------
\* One pass: the object graph is walked, then the document is written, as
\* often as the caller likes.
PassSerialize(m) == ~Written /\ Serialize(m.key, m.obj)

PassSerializeFails(m) == ~Written /\ SerializeBackendFails(m.key, m.obj)

PassSerializeRef(m) == ~Written /\ SerializeRef(m.key, m.obj)

Next ==
    \/ \E m \in Members : PassSerialize(m)
    \/ \E m \in Members : PassSerializeFails(m)
    \/ \E m \in Members : PassSerializeRef(m)
    \/ ObjectReturns
    \/ ObjectThrows
    \/ Unwind
    \/ WriteFile
    \/ WriteStream

Spec == Init /\ [][Next]_vars

\* The operations in any order, with the 8-bit overload, on documents of fewer nodes.
PrimSerialize(m) == Len(nodes) < MaxPrimNodes /\ Serialize(m.key, m.obj)

PrimSerializeRef(m) == Len(nodes) < MaxPrimNodes /\ SerializeRef(m.key, m.obj)

PrimSignedChar(key, asAttribute) ==
    /\ asAttribute \/ Len(nodes) < MaxPrimNodes
    /\ SerializeSignedChar(key, asAttribute)

\* Each sink is written once.
PrimWriteFile == file = Untouched /\ WriteFile

PrimWriteStream == stream = Untouched /\ WriteStream

NextPrim ==
    \/ \E m \in Members : PrimSerialize(m)
    \/ \E m \in Members : PrimSerializeRef(m)
    \/ \E key \in Keys, asAttribute \in BOOLEAN : PrimSignedChar(key, asAttribute)
    \/ ObjectReturns
    \/ PrimWriteFile
    \/ PrimWriteStream

SpecPrim == Init /\ [][NextPrim]_vars

\* Two instances, their operations interleaved; each does its pass and then
\* writes its file once.
TwoSerialize(m) == Len(nodes) < MaxTwoNodes /\ PassSerialize(m)

TwoWriteFile == ~Written /\ WriteFile

NextTwo ==
    \/ \E m \in Members : TwoSerialize(m)
    \/ ObjectReturns
    \/ TwoWriteFile
    \/ \E upTo \in 0..3 : OtherCopyCtor(upTo)
    \/ \E fileName \in FileNames, upTo \in 0..3 : OtherNamedCtor(fileName, upTo)
    \/ \E key \in Keys : OtherSerialize(key)
    \/ OtherReturns
    \/ OtherWriteFile

SpecTwo == Init /\ [][NextTwo]_vars

\* The three 8-bit overloads on every byte, called by the owner of the Serializer.
NarrowKeys == {"value"}

InitNarrow ==
    /\ InitSerializer
    /\ data \in 0..(TwoPow8 - 1)
    /\ charIsSigned \in BOOLEAN
    /\ other = NoOther
    /\ ListPropertyCtor("set", 0)

NarrowSignedChar(key, asAttribute) ==
    /\ asAttribute \/ Len(nodes) < MaxNarrowNodes
    /\ SerializeSignedChar(key, asAttribute)

NarrowChar(key, asAttribute) ==
    /\ asAttribute \/ Len(nodes) < MaxNarrowNodes
    /\ SerializeChar(key, asAttribute)

NarrowUnsignedChar(key, asAttribute) ==
    /\ asAttribute \/ Len(nodes) < MaxNarrowNodes
    /\ SerializeUnsignedChar(key, asAttribute)

NextNarrow ==
    \/ \E key \in NarrowKeys, asAttribute \in BOOLEAN : NarrowSignedChar(key, asAttribute)
    \/ \E key \in NarrowKeys, asAttribute \in BOOLEAN : NarrowChar(key, asAttribute)
    \/ \E key \in NarrowKeys, asAttribute \in BOOLEAN : NarrowUnsignedChar(key, asAttribute)

SpecNarrow == InitNarrow /\ [][NextNarrow]_vars
----------------------------------------------------------------------------
\* Properties of the Serializer.

NodeIds == 1..Len(nodes)

\* The elements serialize(key, object) created.
Created == {e \in NodeIds : origin[e].how = "serialize"}

RECURSIVE DepthBelowRoot(_, _)
DepthBelowRoot(ns, e) ==
    IF e = RootId \/ ns[e].parent = 0 THEN 0
    ELSE 1 + DepthBelowRoot(ns, ns[e].parent)

\* A step in which a serialize(key, object) call links its element.
SerializeStep == calls' = calls + 1

\* A step in which a serialize(key, object) call ends.
CallEnds == Len(stack') < Len(stack)

\* C1: every serialize(key, object) call the backend links creates exactly one
\* element, named key, as the last child of the element that is the cursor at
\* the call, touches no other node and runs the object's method with the
\* cursor on the new element; every created element lies as deep below the
\* root as its call was nested, under the cursor of its call, and there are
\* as many created elements as calls.
C1_OneElementPerCall ==
    /\ [](alive =>
            /\ Cardinality(Created) = calls
            /\ \A e \in Created :
                  /\ DepthBelowRoot(nodes, e) = origin[e].depth
                  /\ nodes[e].parent = origin[e].cursor)
    /\ [][SerializeStep =>
            /\ Len(nodes') = Len(nodes) + 1
            /\ nodes'[Len(nodes')].kind = "element"
            /\ nodes'[Len(nodes')].value = last'.key
            /\ nodes'[Len(nodes')].parent = rootElement_
            /\ nodes'[rootElement_].children =
                  Append(nodes[rootElement_].children, Len(nodes'))
            /\ \A e \in NodeIds \ {rootElement_} : nodes'[e] = nodes[e]
            /\ rootElement_' = Len(nodes')
            /\ Len(stack') = Len(stack) + 1]_vars

\* C1 witness: a pass has ended that created an element two levels below the root.
C1_Witness ==
    /\ TopLevel
    /\ raised = "none"
    /\ \E e \in Created : origin[e].depth = 2 /\ nodes[e].parent \in Created

\* C2: when a serialize(key, object) call ends, by return or by exception,
\* the cursor is the element it was right before the call; when no call is
\* active the cursor is the root element.
C2_CursorRestored ==
    /\ [](alive /\ TopLevel => rootElement_ = RootId)
    /\ [][CallEnds => rootElement_' = origin[stack[Len(stack)].node].cursor]_vars

\* C2 witness: an exception raised two calls deep has reached the caller and
\* the cursor is the root.
C2_Witness ==
    /\ TopLevel
    /\ raised = "SerializationException"
    /\ ~Written
    /\ rootElement_ = RootId
    /\ \E e \in Created : origin[e].depth = 2

\* C9: the children of every node stand in the order in which they were
\* created (node ids count creations), so no later call puts its element
\* before that of an earlier call under the same parent.
C9_ChildrenInCallOrder ==
    \A p \in NodeIds :
        \A i, j \in 1..Len(nodes[p].children) :
            i < j => nodes[p].children[i] < nodes[p].children[j]

\* C9 witness: two serialize calls made under the same element, one after the other.
C9_Witness ==
    \E p \in NodeIds :
        \E i, j \in 1..Len(nodes[p].children) :
            /\ i < j
            /\ nodes[p].children[i] \in Created
            /\ nodes[p].children[j] \in Created

\* C3: of two elements made for the same object identity under different
\* parents, at most one stands for a run of the object's serialize method;
\* the other is a bare reference.
C3_SubtreeEmittedOnce ==
    \A e1, e2 \in NodeIds :
        /\ e1 # e2
        /\ origin[e1].obj # 0
        /\ origin[e1].obj = origin[e2].obj
        /\ nodes[e1].parent # nodes[e2].parent
        => ~(e1 \in Created /\ e2 \in Created)

\* C4: the serialize method of an object is never entered while it is running
\* already, so a cycle of references cannot recurse without end.
C4_NoReentrantWalk ==
    \A i, j \in 1..Len(stack) : i < j => stack[i].obj # stack[j].obj

\* The markers and table entries that existed when a sink was written.
MarkersIn(doc) ==
    {i \in 1..Len(refDataContainer_.markers) :
        refDataContainer_.markers[i].node <= Len(doc)}

StampedIn(doc) ==
    \A i \in MarkersIn(doc) :
        LET m == refDataContainer_.markers[i] IN
        /\ HasAttribute(doc[m.node], "reference")
        /\ GetAttribute(doc[m.node], "reference") = RefText(m.id)
        /\ \E o \in Objects :
              /\ refDataContainer_.table[o].id = m.id
              /\ HasAttribute(doc[refDataContainer_.table[o].node], "id")
              /\ GetAttribute(doc[refDataContainer_.table[o].node], "id") = RefText(m.id)

\* A step of writeFile() or writeFile(stream): no other step leaves last on one.
WriteStep == last'.op \in {"writeFile", "writeStream"}

\* C5: writeFile() and writeFile(stream) first stamp, then flush: a document
\* that reached either sink carries the reference attributes of every
\* reference written before the call, and a call whose stamping failed
\* leaves both sinks as they were.
C5_StampThenFlush ==
    /\ [](/\ file.state = "document" => StampedIn(file.doc)
          /\ stream.state = "document" => StampedIn(stream.doc))
    /\ [][WriteStep /\ ~last'.stamped => file' = file /\ stream' = stream]_vars
    /\ [][WriteStep /\ file' # file /\ file'.state = "document" => file'.doc = nodes']_vars
    /\ [][WriteStep /\ stream' # stream /\ stream'.state = "document"
              => stream'.doc = nodes']_vars

\* C5 witness: a document with a reference in it has reached the stream.
C5_Witness ==
    /\ stream.state = "document"
    /\ MarkersIn(stream.doc) # {}

\* C6: a writeFile call in which the backend reports that it could not write
\* raises SerializationException and leaves the document as the stamping step
\* left it, so that writing it again emits what the failed call would have.
C6_WriteFailureReported ==
    /\ [](last.flush = "failed" => raised = "SerializationException")
    /\ [][WriteStep /\ last'.flush = "failed"
              => nodes' = SetReferenceAttributes(nodes, refDataContainer_)]_vars
    /\ [][WriteStep /\ last.flush = "failed" /\ last'.flush = "ok"
              => /\ nodes' = nodes
                 /\ \/ file' = Document(nodes)
                    \/ stream' = Document(nodes)]_vars

\* C6 witness: the backend failed to save a document that holds a reference,
\* and the caller got a SerializationException.
C6_Witness ==
    /\ last.op = "writeFile"
    /\ last.flush = "failed"
    /\ raised = "SerializationException"
    /\ Len(refDataContainer_.markers) > 0

\* C7: no public operation lets a backend exception reach its caller as it is;
\* the caller sees SerializationException only.
C7_OnlySerializationException == raised \in {"none", "SerializationException"}

\* The value the 8-bit variable has, by the type of the overload.
NarrowOps == {"signed char", "char", "unsigned char"}

NarrowValue(op) ==
    IF op = "unsigned char" \/ (op = "char" /\ ~charIsSigned)
    THEN data
    ELSE SignedCharValue(data)

\* The int that has the value v.
IntPattern(v) == (v + TwoPow16) % TwoPow16

\* The text a primitive overload wrote for key.
WrittenText(ns, cursor, key, asAttribute) ==
    IF asAttribute THEN GetAttribute(ns[cursor], key) ELSE ns[Len(ns)].text

\* C8: an 8-bit overload changes the document exactly as the full-width
\* overload does for the integer of the same value, key and asAttribute, and
\* the text it writes reads back as the value the 8-bit variable has.
C8_NarrowAsWide ==
    [][last'.op \in NarrowOps /\ stack' = stack =>
          /\ nodes' = IF last'.op = "unsigned char"
                      THEN SerializeUnsignedInt(nodes, rootElement_, last'.key,
                                                NarrowValue(last'.op), last'.attr)
                      ELSE SerializeInt(nodes, rootElement_, last'.key,
                                        IntPattern(NarrowValue(last'.op)), last'.attr)
          /\ TextToInt(WrittenText(nodes', rootElement_, last'.key, last'.attr))
                = NarrowValue(last'.op)]_vars

\* C8 witness: a negative signed char has been written as a child element.
C8_Witness ==
    /\ last.op = "signed char"
    /\ ~last.attr
    /\ SignedCharValue(data) < 0
    /\ nodes[Len(nodes)].text = <<"-">> \o NatToText(TwoPow8 - data)

RootVersion == GetAttribute(nodes[RootId], VersionAttribute)

\* The elements that are children of the document itself.
RootElements ==
    {nodes[DocId].children[i] : i \in 1..Len(nodes[DocId].children)}
        \cap {e \in NodeIds : nodes[e].kind = "element"}

\* C10 as stated: one root element, whose version attribute always holds the
\* value initialize wrote.
C10_VersionNeverRewritten ==
    alive => RootElements = {RootId} /\ RootVersion = InviwoVersion

\* C10: the document always has exactly one root element with a version
\* attribute, and a step changes the value of that attribute only if it is a
\* primitive serialize call with asAttribute set and the name of the version
\* attribute as key, made while the cursor is the root; no call made while
\* the cursor is on a nested element changes it.
C10_OneRootVersionKept ==
    /\ [](alive => /\ RootElements = {RootId}
                   /\ HasAttribute(nodes[RootId], VersionAttribute))
    /\ [][RootVersion' # RootVersion =>
            /\ last'.op \in NarrowOps
            /\ last'.attr
            /\ last'.key = VersionAttribute
            /\ rootElement_ = RootId]_vars

\* C10 witness: an attribute named like the version attribute was written on
\* a nested element, the document was written to the file, and the root has
\* the version of initialize.
C10_Witness ==
    /\ alive
    /\ file.state = "document"
    /\ RootVersion = InviwoVersion
    /\ \E e \in Created : HasAttribute(nodes[e], VersionAttribute)

\* The position of child c among the children of p (0 when it is none of them).
PositionIn(ns, p, c) ==
    IF \E i \in 1..Len(ns[p].children) : ns[p].children[i] = c
    THEN CHOOSE i \in 1..Len(ns[p].children) : ns[p].children[i] = c
    ELSE 0

\* C11: once the Serializer is constructed the edit-warning comment is the
\* first child of the root element, and stays so; every element a serialize
\* call made at top level is a child of the root placed after it.
C11_CommentFirst ==
    alive =>
        /\ Len(nodes[RootId].children) >= 1
        /\ nodes[RootId].children[1] = CommentId
        /\ nodes[CommentId].kind = "comment"
        /\ nodes[CommentId].value = EditComment
        /\ \A e \in Created :
              origin[e].depth = 1 => PositionIn(nodes, RootId, e) > 1

\* C11 witness: two serialize calls were made at top level and have returned.
C11_Witness ==
    /\ alive
    /\ TopLevel
    /\ Cardinality({e \in Created : origin[e].depth = 1}) >= 2
    /\ nodes[RootId].children[1] = CommentId

IsPrefix(a, b) == Len(a) <= Len(b) /\ SubSeq(b, 1, Len(a)) = a

\* The document is a tree: every node but the document has a parent created
\* before it and stands exactly once among the children of that parent, and
\* of no other node.
WellFormedTree(ns) ==
    /\ ns[DocId].parent = 0
    /\ \A e \in 2..Len(ns) :
          /\ ns[e].parent \in 1..(e - 1)
          /\ \A p \in 1..Len(ns) :
                Cardinality({i \in 1..Len(ns[p].children) : ns[p].children[i] = e})
                    = IF p = ns[e].parent THEN 1 ELSE 0

\* C12: no step takes a node out of the document, moves it to another parent
\* or changes the order of children that exist: the children of every node
\* only get longer at the end.  Whatever the pass did, also after an
\* exception ended it, the document is a tree below the single root and every
\* created element is attached to the element its call was made under.
C12_TreeOnlyGrows ==
    /\ [](alive =>
            /\ WellFormedTree(nodes)
            /\ \A e \in Created :
                  /\ nodes[e].parent = origin[e].cursor
                  /\ PositionIn(nodes, origin[e].cursor, e) > 0)
    /\ [][/\ Len(nodes') >= Len(nodes)
           /\ \A e \in NodeIds :
                 /\ nodes[e].parent # 0 => nodes'[e].parent = nodes[e].parent
                 /\ IsPrefix(nodes[e].children, nodes'[e].children)]_vars

\* C12 witness: the method of a nested object failed, the exception reached
\* the caller, and the elements of both calls are in the document.
C12_Witness ==
    /\ TopLevel
    /\ raised = "SerializationException"
    /\ ~Written
    /\ \E e \in Created :
          /\ origin[e].depth = 2
          /\ nodes[e].parent \in Created
          /\ nodes[nodes[e].parent].parent = RootId

\* C13: a step that ends in an error at the caller, be it the end of a failed
\* serialize pass or a failed writeFile call, leaves the file and the stream
\* with the content they had; a valid document in a target is never replaced
\* by a partial one.
C13_FailureLeavesTarget ==
    /\ [][raised' # "none" => file' = file /\ stream' = stream]_vars
    /\ [][file.state = "document" => file'.state = "document"]_vars
    /\ [][stream.state = "document" => stream'.state = "document"]_vars

\* The state of the first instance but for the file it names.
InstanceVars ==
    <<nodes, rootElement_, stack, exc, raised, alive, origin, calls, visits,
      refDataContainer_, stream, last, data, charIsSigned>>

\* A step of the second instance, and a step of the first.
OtherStep == other' # other

FirstStep == InstanceVars' # InstanceVars

\* C14 as stated: no step of one instance changes the document, cursor,
\* reference table or output of the other, and the file an instance wrote
\* holds its document.
C14_InstancesIndependent ==
    /\ [][OtherStep => UNCHANGED InstanceVars /\ file' = file]_vars
    /\ [][FirstStep => other' = other]_vars
    /\ [](last.op = "writeFile" /\ last.flush = "ok" => file = Document(nodes))

\* C14: no step of one instance changes the document, cursor, reference
\* table or stream of the other; a step of the second instance changes the
\* file of the first only if both name the same file, as they do when the
\* second was constructed from the first; unless they do, the file the first
\* wrote holds its document.
C14_IndependentButForSharedFile ==
    /\ [][OtherStep => UNCHANGED InstanceVars]_vars
    /\ [][OtherStep /\ file' # file => other.fileName = SFileName]_vars
    /\ [][FirstStep => other' = other]_vars
    /\ [](/\ last.op = "writeFile"
          /\ last.flush = "ok"
          /\ ~(other.state = "built" /\ other.fileName = SFileName)
          => file = Document(nodes))

\* C14 witness: both instances ran a pass and wrote, each its own file, and
\* each file holds the document of its instance.
C14_Witness ==
    /\ last.op = "writeFile"
    /\ last.flush = "ok"
    /\ Len(nodes) > 4
    /\ other.state = "built"
    /\ other.fileName # SFileName
    /\ Len(other.nodes) > 4
    /\ other.file = Document(other.nodes)
    /\ file = Document(nodes)

\* C15: a Serializer whose construction succeeded, from a file name or from s
\* in whatever state s is, has the cursor on its own root, no call active, and
\* a document of exactly the declaration, the root with the version
\* attribute and, as the only child of the root, the comment; the
\* construction changes nothing of s.
C15_FreshInstance ==
    [][other.state = "none" /\ other'.state = "built" =>
          /\ other'.rootElement_ = RootId
          /\ other'.stack = <<>>
          /\ Len(other'.nodes) = 4
          /\ other'.nodes[DocId].children = <<2, RootId>>
          /\ other'.nodes[2].kind = "declaration"
          /\ other'.nodes[RootId].kind = "element"
          /\ other'.nodes[RootId].value = InviwoTreedata
          /\ GetAttribute(other'.nodes[RootId], VersionAttribute) = InviwoVersion
          /\ other'.nodes[RootId].children = <<CommentId>>
          /\ other'.nodes[CommentId].kind = "comment"
          /\ other'.nodes[CommentId].children = <<>>
          /\ UNCHANGED serializerVars]_vars

\* C15 witness: the second instance was constructed from s while a serialize
\* call on s was active, and s went on.
C15_Witness ==
    /\ other.state = "built"
    /\ other.fileName = SFileName
    /\ other.from.depth >= 1
    /\ other.from.size > 4
    /\ other.stack = <<>>
    /\ Len(other.nodes) = 4
    /\ Len(stack) >= 1

\* Properties of the ListProperty, in the states between its calls.

AddStep == listState'.op = "addElement"

DeleteStep == listState'.op \in {"deleteElement", "deleteElement out_of_range"}

Uids(props) == [i \in 1..Len(props) |-> props[i].uid]

\* C16: between calls numElements_ is the number of properties in elements_
\* and the number of options in elementSelection_.
C16_CountsAgree ==
    listState.live =>
        /\ numElements_ = Len(elements_)
        /\ numElements_ = Len(elementSelection_.options)

\* C16 witness: three elements were added and one deleted.
C16_Witness ==
    /\ listState.live
    /\ listState.op = "deleteElement"
    /\ listState.clones = 3
    /\ numElements_ = 2

\* C17: between calls the i-th element has identifier element_<i> and display
\* name '<elementName> <i>', and the i-th option has identifier
\* elementOption_<i>, for i from 1 to the number of elements; addElement gives
\* the new element an identifier no element had.
C17_ContiguousNames ==
    /\ [](listState.live =>
            /\ \A i \in 1..Len(elements_) :
                  /\ elements_[i].identifier = <<"element_">> \o NatToText(i)
                  /\ elements_[i].displayName = <<ElementName, " ">> \o NatToText(i)
            /\ \A i \in 1..Len(elementSelection_.options) :
                  /\ elementSelection_.options[i].identifier
                        = <<"elementOption_">> \o NatToText(i)
                  /\ elementSelection_.options[i].displayName
                        = <<ElementName, " ">> \o NatToText(i)
            /\ \A i, j \in 1..Len(elements_) :
                  i # j => elements_[i].identifier # elements_[j].identifier)
    /\ [][AddStep /\ Len(elements_') > Len(elements_) =>
            \A i \in 1..Len(elements_) :
                elements_[i].identifier # elements_'[Len(elements_')].identifier]_vars

\* C17 witness: the first of three elements was deleted and an element was
\* added after that.
C17_Witness ==
    /\ listState.live
    /\ listState.op = "addElement"
    /\ Len(elements_) = 3
    /\ Uids(elements_) = <<2, 3, 4>>

\* C18: addElement adds one element, one option and one to numElements_ when
\* maxNumElements_ is 0 or numElements_ is below it, and changes nothing
\* otherwise; a positive maxNumElements_ is never exceeded.
C18_AddWithinBound ==
    /\ [][AddStep =>
            IF maxNumElements_ = 0 \/ numElements_ < maxNumElements_
            THEN /\ listState'.live
                 /\ numElements_' = numElements_ + 1
                 /\ Len(elements_') = Len(elements_) + 1
                 /\ SubSeq(elements_', 1, Len(elements_)) = elements_
                 /\ Len(elementSelection_'.options) = Len(elementSelection_.options) + 1
            ELSE UNCHANGED <<numElements_, elements_, elementSelection_>>]_vars
    /\ [](maxNumElements_ > 0 => numElements_ <= maxNumElements_)

\* C19: deleteElement on an empty list changes nothing; on a list that is not
\* empty the selected index is one of its places, the call removes the
\* element at that place and no other, keeps the others in their order and
\* takes one off numElements_.
C19_DeletesSelected ==
    /\ [](listState.live /\ numElements_ > 0 =>
            elementSelection_.selectedIndex_ \in 0..(numElements_ - 1))
    /\ [](listState.op # "deleteElement out_of_range")
    /\ [][DeleteStep =>
            IF numElements_ = 0
            THEN UNCHANGED <<numElements_, elements_, elementSelection_>>
            ELSE /\ numElements_' = numElements_ - 1
                 /\ Uids(elements_') =
                       EraseAt(Uids(elements_), elementSelection_.selectedIndex_)]_vars

\* C19 witness: of three elements the second was selected and deleted.
C19_Witness ==
    /\ listState.live
    /\ listState.op = "deleteElement"
    /\ numElements_ = 2
    /\ Uids(elements_) = <<1, 3>>
====
